---- MODULE Spec2Model ----
(***************************************************************************)
(* influxin: a parent process that supervises child commands, fans the    *)
(* lines of their standard output out to collectors (a batch collector     *)
(* posting to InfluxDB through a submitter, and a print collector), and    *)
(* restarts the children.  The model follows src/unnamed/part_000, the     *)
(* latest revision of main.go.                                             *)
(*                                                                         *)
(* Every goroutine of the program is a process of the model; a blocking    *)
(* channel operation is the point where a handler is split into actions,   *)
(* and a send on an unbuffered channel is one step shared by the sender    *)
(* and the receiver.                                                       *)
(*                                                                         *)
(* Modelled: cmds.run and runOne, execCollect, the stdout goroutine of     *)
(* drainPipes, results.collect, printCollector, batchCollector and the     *)
(* submitter with its workers.  The -prefix flag is taken as unset, so     *)
(* send puts every line it is given on ch.  The stderr goroutine of        *)
(* drainPipes copies to os.Stderr and shares nothing with the pipeline:    *)
(* it is the action stderr, which NextErr adds to Next.                    *)
(***************************************************************************)
EXTENDS Integers, Sequences, FiniteSets, TLC

\* ---------------------------------------------------------------- bounds
\* Largest number of commands given on the command line.
MaxCmds == 2
\* Largest number of executions of commands, all commands together (the
\* loop of runOne is endless; the guard of execCollect caps it).
MaxRuns == 3
\* Largest number of lines the children write to standard output, all
\* children together.
MaxLines == 3
\* Largest value of the -nbatch flag.
MaxBatch == 2
\* Largest number of lines the children write to standard error, all
\* children together.
MaxErrLines == 2

\* ------------------------------------------------------ program constants
\* start: nworkers := 1, the number of HTTP submitting workers.
NWorkers == 1
\* start: nbuf := 0, the buffer of the workers' channel s.ch; a send on
\* it is a rendezvous with a worker.
NBuf == 0

Workers == 1..NWorkers
Cmds == 1..MaxCmds

\* The empty string "" a cleared slot of the batch slice holds (a line is a
\* tuple, so the empty tuple stands for it).
Empty == <<>>
\* The nil error.
Nil == "nil"

VARIABLES
  \* configuration, fixed by start() before the pipeline runs
  fatal,      \* the -fatal flag
  nbatch,     \* the -nbatch flag
  ncmds,      \* len(cmds)
  cols,       \* cs, the collectors handed to newResults, in order
  \* the process
  mainpc,     \* where the main goroutine is: "run", "runOne", "select"
  exit,       \* -1 while the process runs, else its exit status
  \* runOne / execCollect, one per command
  pc,         \* "off", "exec", "drain", "wait", "fatalf"
  runs,       \* number of times execCollect was entered
  alive,      \* number of started children not yet waited on
  err,        \* the error execCollect returned to this turn of the loop
  nlog,       \* number of "executing subprocess" lines written to elog
  \* drainPipes: the stdout goroutine and the channel ch
  spc,        \* "off", "scan", "send", "closed"
  sline,      \* the line the stdout goroutine is sending on ch
  nread,      \* lines the scanner returned in this run
  \* results.collect, one call per drainPipes
  rpc,        \* "off", "range", "send"
  rres,       \* res
  ri,         \* i, the index of the next sink (1-based)
  \* batchCollector
  bpc,        \* "off", "select", "submit"
  batch,      \* b.batch
  batchi,     \* b.batchi
  skipTick,   \* skipTick
  bres,       \* res, held across a flush
  bbuf,       \* the buffer flush is submitting
  bcase,      \* the case of the select flush was called from
  \* submitter
  wpc,        \* per worker: "off", "idle", "send"
  wr,         \* per worker: the reader r it is sending
  \* history
  input,      \* per command: the lines sent on ch, over all runs
  recv,       \* per sink: the lines received
  flushes,    \* the buffers flush handed to submit, in order
  capSince,   \* flushes of a full batch since the last tick was handled
  aged,       \* ticks handled since the oldest line collect holds came
  posts,      \* the buffer of every send, in order
  suberr,     \* whether run has logged "could not submit batch"
  errout      \* the lines written to os.Stderr, in order

cfgvars == <<fatal, nbatch, ncmds, cols>>
supvars == <<mainpc, exit, pc, runs, alive, err, nlog>>
scanvars == <<spc, sline, nread, input>>
routevars == <<rpc, rres, ri>>
batchvars == <<bpc, batch, batchi, skipTick, bres, bbuf, bcase, flushes, capSince,
               aged>>
subvars == <<wpc, wr, posts, suberr>>
vars == <<cfgvars, supvars, scanvars, routevars, batchvars, subvars, recv,
          errout>>

\* ------------------------------------------------------------ helpers
Running == exit = -1

\* The collectors start() builds: a batch collector when an endpoint is
\* given, a print collector when verbose (forced without an endpoint).
Collectors == {<<"batch">>, <<"batch", "print">>, <<"print">>}

HasBatch == \E i \in 1..Len(cols) : cols[i] = "batch"

Active == 1..ncmds

\* A line of standard output: the command, the run and its position.
Line(p, r, k) == <<p, r, k>>

\* A line of standard error: the command, the run and, below zero, its
\* position in what was written to os.Stderr.
ErrLine(p, r, k) == <<p, r, 0 - k>>

\* The sum of f[1], ..., f[n].
RECURSIVE SumTo(_, _)
SumTo(f, n) == IF n = 0 THEN 0 ELSE f[n] + SumTo(f, n - 1)

\* Executions of commands so far, and lines read from standard output so far.
TotalRuns == SumTo(runs, MaxCmds)
TotalLines == SumTo([p \in Cmds |-> Len(input[p])], MaxCmds)

\* newBatchCollector: make([]string, nbatch).
newBatch(n) == [i \in 1..n |-> Empty]

\* Mutant of writeTo: the lines are written newest first.
writeToNewestFirst(b, bi) == [i \in 1..bi |-> b[bi + 1 - i]]

\* bytes.Buffer after writeTo: one line of output per batch line, in order.
\* A line holds no newline (the scanner splits on them), so the buffer is
\* the sequence of its lines.
writeTo(b, bi) == [i \in 1..bi |-> b[i]]

\* writeTo: b.batch[i] = "" for i < b.batchi.
cleared(b, bi) == [i \in 1..Len(b) |-> IF i <= bi THEN Empty ELSE b[i]]

\* Mutant of isFull: the batch is flushed one line late.
isFullLate(bi, n) == bi > n

\* Mutant of isFull: the batch is flushed when the line would fill it.
isFullEarly(bi, n) == bi + 1 >= n

\* collect, case res := <-ch: whether the batch is flushed first.
isFull(bi, n) == bi >= n

\* Mutant of onTick: skipTick is not looked at.
onTickNoSkip(skip, bi) == IF bi = 0 THEN "noop" ELSE "flush"

\* Mutant of onTick: an empty batch is flushed too.
onTickEmpty(skip, bi) == IF skip THEN "skip" ELSE "flush"

\* collect, case <-tick: "skip", "noop" or "flush".
onTick(skip, bi) ==
  IF skip THEN "skip" ELSE IF bi = 0 THEN "noop" ELSE "flush"

\* execCollect: the error returned for what cmd.Wait returned.  Only an
\* *exec.ExitError is returned; any other error is logged and dropped.
waitErr(w) == IF w = "ExitError" THEN "child exited with failure code" ELSE Nil

\* Mutant of runOneNext: the -fatal flag is not looked at.
runOneNextNeverFatal(e, f) == "exec"

\* Mutant of runOneNext: every failure is fatal.
runOneNextAlwaysFatal(e, f) == IF e # Nil THEN "fatalf" ELSE "exec"

\* Mutant of runOneNext: the loop ends when execCollect returns no error.
runOneNextStop(e, f) ==
  IF e = Nil THEN "return" ELSE IF f THEN "fatalf" ELSE "exec"

\* runOne: where the loop goes after execCollect returned e.
runOneNext(e, f) == IF e # Nil /\ f THEN "fatalf" ELSE "exec"

\* runOne: the lines written to elog after execCollect returned e.
runOneLog(e) == IF e # Nil THEN 1 ELSE 0

\* submitter.send: the error returned for the outcome of the round trip.
sendErr(o) == IF o = "2xx" THEN Nil ELSE o

\* Mutant of runNext: the worker ends on an error.
runNextStop(e) == IF e # Nil THEN "off" ELSE "idle"

\* submitter.run: where the worker goes after send returned e.  The error
\* is logged and the loop takes the next reader.
runNext(e) == "idle"

\* What cmd.StderrPipe, cmd.StdoutPipe and cmd.Start can end in.
StartOutcomes == {"ok", "cannot get stderr", "cannot get stdout", "cannot start"}

\* execCollect: the error returned when the command could not be started.
\* The three errors differ in their text only.
startErr(o) == IF o = "ok" THEN Nil ELSE "cannot start command"
\* What cmd.Wait can return: nil, an *exec.ExitError, another error.
WaitOutcomes == {Nil, "ExitError", "other"}
\* What a POST can end in: client.Do fails, a status outside 2xx, the body
\* cannot be read, or success.
SendOutcomes == {"2xx", "cannot POST data", "expected status 2xx",
                 "cannot read and discard data"}

\* ------------------------------------------------------------------ Init
\* The state when start() calls cmds.run: newSubmitter has started its
\* workers, newResults has started every collector on its own channel.
Init ==
  /\ fatal \in BOOLEAN
  /\ nbatch \in 1..MaxBatch
  /\ ncmds \in 1..MaxCmds
  /\ cols \in Collectors
  /\ mainpc = "run"
  /\ exit = -1
  /\ pc = [p \in Cmds |-> "off"]
  /\ runs = [p \in Cmds |-> 0]
  /\ alive = [p \in Cmds |-> 0]
  /\ err = [p \in Cmds |-> Nil]
  /\ nlog = [p \in Cmds |-> 0]
  /\ spc = [p \in Cmds |-> "off"]
  /\ sline = [p \in Cmds |-> <<>>]
  /\ nread = [p \in Cmds |-> 0]
  /\ rpc = [p \in Cmds |-> "off"]
  /\ rres = [p \in Cmds |-> <<>>]
  /\ ri = [p \in Cmds |-> 0]
  /\ bpc = IF HasBatch THEN "select" ELSE "off"
  /\ batch = newBatch(nbatch)
  /\ batchi = 0
  /\ skipTick = FALSE
  /\ bres = <<>>
  /\ bbuf = <<>>
  /\ bcase = "none"
  /\ wpc = [w \in Workers |-> IF HasBatch THEN "idle" ELSE "off"]
  /\ wr = [w \in Workers |-> <<>>]
  /\ input = [p \in Cmds |-> <<>>]
  /\ recv = [i \in 1..Len(cols) |-> <<>>]
  /\ flushes = <<>>
  /\ capSince = 0
  /\ aged = 0
  /\ posts = <<>>
  /\ suberr = FALSE
  /\ errout = <<>>

\* ----------------------------------------------------------- supervision
\* cmds.run: with one command runOne runs on the main goroutine, otherwise
\* one goroutine per command is started and main blocks in select {}.
run ==
  /\ Running /\ mainpc = "run"
  /\ mainpc' = IF ncmds = 1 THEN "runOne" ELSE "select"
  /\ pc' = [p \in Cmds |-> IF p \in Active THEN "exec" ELSE "off"]
  /\ UNCHANGED <<errout, cfgvars, exit, runs, alive, err, nlog, scanvars,
                 routevars, batchvars, subvars, recv>>

\* execCollect up to the call of drainPipes, and, when it fails, the rest
\* of the loop body of runOne.
execCollect(p) ==
  /\ Running /\ pc[p] = "exec" /\ TotalRuns < MaxRuns
  /\ runs' = [runs EXCEPT ![p] = @ + 1]
  /\ \E o \in StartOutcomes :
       IF o = "ok"
       THEN /\ pc' = [pc EXCEPT ![p] = "drain"]
            /\ alive' = [alive EXCEPT ![p] = @ + 1]
            /\ spc' = [spc EXCEPT ![p] = "scan"]
            /\ nread' = [nread EXCEPT ![p] = 0]
            /\ rpc' = [rpc EXCEPT ![p] = "range"]
            /\ err' = [err EXCEPT ![p] = Nil]
            /\ UNCHANGED nlog
       ELSE /\ err' = [err EXCEPT ![p] = startErr(o)]
            /\ nlog' = [nlog EXCEPT ![p] = @ + runOneLog(startErr(o))]
            /\ pc' = [pc EXCEPT ![p] = runOneNext(startErr(o), fatal)]
            /\ UNCHANGED <<alive, spc, nread, rpc>>
  /\ UNCHANGED <<errout, cfgvars, mainpc, exit, sline, input, rres, ri, batchvars,
                 subvars, recv>>

\* execCollect from cmd.Wait on, and the rest of the loop body of runOne.
wait(p) ==
  /\ Running /\ pc[p] = "wait"
  /\ \E w \in WaitOutcomes :
       /\ err' = [err EXCEPT ![p] = waitErr(w)]
       /\ nlog' = [nlog EXCEPT ![p] = @ + runOneLog(waitErr(w))]
       /\ pc' = [pc EXCEPT ![p] = runOneNext(waitErr(w), fatal)]
  /\ alive' = [alive EXCEPT ![p] = @ - 1]
  /\ UNCHANGED <<errout, cfgvars, mainpc, exit, runs, scanvars, routevars, batchvars,
                 subvars, recv>>

\* elog.Fatalf: writes the line and calls os.Exit(1).
Fatalf(p) ==
  /\ Running /\ pc[p] = "fatalf"
  /\ exit' = 1
  /\ UNCHANGED <<errout, cfgvars, mainpc, pc, runs, alive, err, nlog, scanvars,
                 routevars, batchvars, subvars, recv>>

\* ------------------------------------------------------------ drainPipes
\* The stdout goroutine: sc.Scan returns a line, which send puts on ch
\* (the goroutine then blocks on ch), or it returns false (end of file or
\* an error, which is logged) and ch is closed.
scan(p) ==
  /\ Running /\ spc[p] = "scan"
  /\ \/ /\ TotalLines < MaxLines
        /\ nread' = [nread EXCEPT ![p] = @ + 1]
        /\ sline' = [sline EXCEPT ![p] = Line(p, runs[p], nread[p] + 1)]
        /\ input' = [input EXCEPT ![p] = Append(@, Line(p, runs[p], nread[p] + 1))]
        /\ spc' = [spc EXCEPT ![p] = "send"]
     \/ /\ spc' = [spc EXCEPT ![p] = "closed"]
        /\ UNCHANGED <<nread, sline, input>>
  /\ UNCHANGED <<errout, cfgvars, supvars, routevars, batchvars, subvars, recv>>

\* Mutant of stderr: the stderr goroutine calls send, as the stdout
\* goroutine does, and the router receives the line from ch.
stderrSend(p) ==
  /\ Running /\ alive[p] > 0 /\ Len(errout) < MaxErrLines
  /\ rpc[p] = "range"
  /\ errout' = Append(errout, ErrLine(p, runs[p], Len(errout) + 1))
  /\ rres' = [rres EXCEPT ![p] = ErrLine(p, runs[p], Len(errout) + 1)]
  /\ ri' = [ri EXCEPT ![p] = 1]
  /\ rpc' = [rpc EXCEPT ![p] = "send"]
  /\ UNCHANGED <<cfgvars, supvars, scanvars, batchvars, subvars, recv>>

\* The stderr goroutine: sc.Scan returns a line of the child's standard
\* error, which is written to os.Stderr.  The pipe is open from cmd.Start
\* to cmd.Wait.
stderr(p) ==
  /\ Running /\ alive[p] > 0 /\ Len(errout) < MaxErrLines
  /\ errout' = Append(errout, ErrLine(p, runs[p], Len(errout) + 1))
  /\ UNCHANGED <<cfgvars, supvars, scanvars, routevars, batchvars, subvars,
                 recv>>

\* ------------------------------------------------------- results.collect
\* Mutant of collectRecv: the next line is taken from ch while the line
\* before is still being sent to the sinks.
collectRecvEager(p) ==
  /\ Running /\ rpc[p] \in {"range", "send"} /\ spc[p] = "send"
  /\ rres' = [rres EXCEPT ![p] = sline[p]]
  /\ ri' = [ri EXCEPT ![p] = 1]
  /\ rpc' = [rpc EXCEPT ![p] = "send"]
  /\ spc' = [spc EXCEPT ![p] = "scan"]
  /\ sline' = [sline EXCEPT ![p] = <<>>]
  /\ UNCHANGED <<errout, cfgvars, supvars, nread, input, batchvars, subvars, recv>>

\* for res := range ch: a line is received from the stdout goroutine.
collectRecv(p) ==
  /\ Running /\ rpc[p] = "range" /\ spc[p] = "send"
  /\ rres' = [rres EXCEPT ![p] = sline[p]]
  /\ ri' = [ri EXCEPT ![p] = 1]
  /\ rpc' = [rpc EXCEPT ![p] = "send"]
  /\ spc' = [spc EXCEPT ![p] = "scan"]
  /\ sline' = [sline EXCEPT ![p] = <<>>]
  /\ UNCHANGED <<errout, cfgvars, supvars, nread, input, batchvars, subvars, recv>>

\* Mutant of collectDone: collect returns as soon as ch is closed, though
\* the last line has not been sent to every sink.
collectDoneEarly(p) ==
  /\ Running /\ rpc[p] \in {"range", "send"} /\ spc[p] = "closed"
  /\ rpc' = [rpc EXCEPT ![p] = "off"]
  /\ spc' = [spc EXCEPT ![p] = "off"]
  /\ pc' = [pc EXCEPT ![p] = "wait"]
  /\ UNCHANGED <<errout, cfgvars, mainpc, exit, runs, alive, err, nlog, sline,
                 nread, input, rres, ri, batchvars, subvars, recv>>

\* Mutant of collectDone: execCollect returns without calling cmd.Wait.
collectDoneNoWait(p) ==
  /\ Running /\ rpc[p] = "range" /\ spc[p] = "closed"
  /\ rpc' = [rpc EXCEPT ![p] = "off"]
  /\ spc' = [spc EXCEPT ![p] = "off"]
  /\ pc' = [pc EXCEPT ![p] = "exec"]
  /\ UNCHANGED <<errout, cfgvars, mainpc, exit, runs, alive, err, nlog, sline,
                 nread, input, rres, ri, batchvars, subvars, recv>>

\* for res := range ch ends on the closed channel: collect and drainPipes
\* return, and execCollect goes on to cmd.Wait.
collectDone(p) ==
  /\ Running /\ rpc[p] = "range" /\ spc[p] = "closed"
  /\ rpc' = [rpc EXCEPT ![p] = "off"]
  /\ spc' = [spc EXCEPT ![p] = "off"]
  /\ pc' = [pc EXCEPT ![p] = "wait"]
  /\ UNCHANGED <<errout, cfgvars, mainpc, exit, runs, alive, err, nlog, sline,
                 nread, input, rres, ri, batchvars, subvars, recv>>

\* Mutant of sent: the loop over r.sinks ends after the first sink.
sentFirstOnly(p) ==
  /\ rpc' = [rpc EXCEPT ![p] = "range"]
  /\ rres' = [rres EXCEPT ![p] = <<>>]
  /\ ri' = [ri EXCEPT ![p] = 0]

\* The router after r.sinks[i] <- res went through: the next sink, or the
\* next line.
sent(p) ==
  IF ri[p] < Len(cols)
  THEN /\ ri' = [ri EXCEPT ![p] = @ + 1]
       /\ UNCHANGED <<rpc, rres>>
  ELSE /\ rpc' = [rpc EXCEPT ![p] = "range"]
       /\ rres' = [rres EXCEPT ![p] = <<>>]
       /\ ri' = [ri EXCEPT ![p] = 0]

\* Mutant of sendPrint: res is shared by the concurrent calls of collect,
\* so the line sent is the one any of them last read.
sendPrintShared(p) ==
  /\ Running /\ rpc[p] = "send" /\ cols[ri[p]] = "print"
  /\ \E q \in Active :
       /\ rpc[q] = "send"
       /\ recv' = [recv EXCEPT ![ri[p]] = Append(@, rres[q])]
  /\ sent(p)
  /\ UNCHANGED <<errout, cfgvars, supvars, scanvars, batchvars, subvars>>

\* r.sinks[i] <- res received by printCollector.collect, which prints it.
sendPrint(p) ==
  /\ Running /\ rpc[p] = "send" /\ cols[ri[p]] = "print"
  /\ recv' = [recv EXCEPT ![ri[p]] = Append(@, rres[p])]
  /\ sent(p)
  /\ UNCHANGED <<errout, cfgvars, supvars, scanvars, batchvars, subvars>>

\* --------------------------------------------------------- batchCollector
\* Mutant of flush: writeTo leaves the batch as it is.
flushKeep(c) ==
  /\ bbuf' = writeTo(batch, batchi)
  /\ flushes' = Append(flushes, writeTo(batch, batchi))
  /\ UNCHANGED <<batch, batchi>>
  /\ bcase' = c
  /\ bpc' = "submit"

\* flush: writeTo fills the buffer and empties the batch; the collector
\* then blocks in submit.
flush(c) ==
  /\ bbuf' = writeTo(batch, batchi)
  /\ flushes' = Append(flushes, writeTo(batch, batchi))
  /\ batch' = cleared(batch, batchi)
  /\ batchi' = 0
  /\ bcase' = c
  /\ bpc' = "submit"

\* r.sinks[i] <- res received by batchCollector.collect, case res := <-ch.
\* A full batch is flushed first, and the line is stored after submit.
sendBatch(p) ==
  /\ Running /\ rpc[p] = "send" /\ cols[ri[p]] = "batch" /\ bpc = "select"
  /\ recv' = [recv EXCEPT ![ri[p]] = Append(@, rres[p])]
  /\ sent(p)
  /\ IF isFull(batchi, nbatch)
     THEN /\ flush("line")
          /\ bres' = rres[p]
          /\ capSince' = capSince + 1
          /\ aged' = 0
          /\ UNCHANGED skipTick
     ELSE /\ batch' = [batch EXCEPT ![batchi + 1] = rres[p]]
          /\ batchi' = batchi + 1
          /\ aged' = IF batchi = 0 THEN 0 ELSE aged
          /\ UNCHANGED <<bpc, skipTick, bres, bbuf, bcase, flushes, capSince>>
  /\ UNCHANGED <<errout, cfgvars, supvars, scanvars, subvars>>

\* Mutant of collectTick: a skipped tick leaves skipTick set.
collectTickKeepSkip ==
  /\ Running /\ bpc = "select"
  /\ capSince' = 0
  /\ UNCHANGED skipTick
  /\ IF onTick(skipTick, batchi) = "flush"
     THEN /\ flush("tick")
          /\ aged' = 0
          /\ UNCHANGED bres
     ELSE /\ aged' = IF batchi > 0 THEN aged + 1 ELSE 0
          /\ UNCHANGED <<bpc, batch, batchi, bres, bbuf, bcase, flushes>>
  /\ UNCHANGED <<errout, cfgvars, supvars, scanvars, routevars, subvars, recv>>

\* batchCollector.collect, case <-tick.  The ticker of time.Tick fires at
\* any time and keeps one tick in its channel, so a tick can be received
\* whenever the collector is in its select.
collectTick ==
  /\ Running /\ bpc = "select"
  /\ capSince' = 0
  /\ skipTick' = FALSE
  /\ IF onTick(skipTick, batchi) = "flush"
     THEN /\ flush("tick")
          /\ aged' = 0
          /\ UNCHANGED bres
     ELSE /\ aged' = IF batchi > 0 THEN aged + 1 ELSE 0
          /\ UNCHANGED <<bpc, batch, batchi, bres, bbuf, bcase, flushes>>
  /\ UNCHANGED <<errout, cfgvars, supvars, scanvars, routevars, subvars, recv>>

\* -------------------------------------------------------------- submitter
\* Mutant of submit: submit makes the POST itself and returns when the
\* round trip has.
submitSync(w) ==
  /\ Running /\ bpc = "submit" /\ wpc[w] = "idle"
  /\ posts' = Append(posts, bbuf)
  /\ bbuf' = <<>>
  /\ bcase' = "none"
  /\ bpc' = "select"
  /\ IF bcase = "line"
     THEN /\ skipTick' = TRUE
          /\ batch' = [batch EXCEPT ![batchi + 1] = bres]
          /\ batchi' = batchi + 1
          /\ bres' = <<>>
     ELSE UNCHANGED <<skipTick, batch, batchi, bres>>
  /\ UNCHANGED <<errout, cfgvars, supvars, scanvars, routevars, flushes,
                 capSince, aged, wpc, wr, suberr, recv>>

\* Mutant of submit: s.ch takes the reader though the worker has not come
\* back to receive.
submitNoWait(w) ==
  /\ Running /\ bpc = "submit"
  /\ wpc' = [wpc EXCEPT ![w] = "send"]
  /\ wr' = [wr EXCEPT ![w] = bbuf]
  /\ bbuf' = <<>>
  /\ bcase' = "none"
  /\ bpc' = "select"
  /\ IF bcase = "line"
     THEN /\ skipTick' = TRUE
          /\ batch' = [batch EXCEPT ![batchi + 1] = bres]
          /\ batchi' = batchi + 1
          /\ bres' = <<>>
     ELSE UNCHANGED <<skipTick, batch, batchi, bres>>
  /\ UNCHANGED <<errout, cfgvars, supvars, scanvars, routevars, flushes,
                 capSince, aged, posts, suberr, recv>>

\* s.ch <- r in submit, received by for r := range s.ch of an idle worker
\* (the channel has no buffer).  flush returns, and the case it was called
\* from goes on.
submit(w) ==
  /\ Running /\ bpc = "submit" /\ wpc[w] = "idle"
  /\ wpc' = [wpc EXCEPT ![w] = "send"]
  /\ wr' = [wr EXCEPT ![w] = bbuf]
  /\ bbuf' = <<>>
  /\ bcase' = "none"
  /\ bpc' = "select"
  /\ IF bcase = "line"
     THEN /\ skipTick' = TRUE
          /\ batch' = [batch EXCEPT ![batchi + 1] = bres]
          /\ batchi' = batchi + 1
          /\ bres' = <<>>
     ELSE UNCHANGED <<skipTick, batch, batchi, bres>>
  /\ UNCHANGED <<errout, cfgvars, supvars, scanvars, routevars, flushes,
                 capSince, aged, posts, suberr, recv>>

\* Mutant of send: after a failed round trip the worker posts the same
\* reader again.
sendRetry(w) ==
  /\ Running /\ wpc[w] = "send"
  /\ \E o \in SendOutcomes :
       /\ posts' = Append(posts, wr[w])
       /\ suberr' = (suberr \/ sendErr(o) # Nil)
       /\ IF sendErr(o) # Nil
          THEN UNCHANGED <<wpc, wr>>
          ELSE /\ wpc' = [wpc EXCEPT ![w] = "idle"]
               /\ wr' = [wr EXCEPT ![w] = <<>>]
  /\ UNCHANGED <<errout, cfgvars, supvars, scanvars, routevars, batchvars, recv>>

\* submitter.send returns to run, which logs an error and takes the next
\* reader.
send(w) ==
  /\ Running /\ wpc[w] = "send"
  /\ \E o \in SendOutcomes :
       /\ posts' = Append(posts, wr[w])
       /\ suberr' = (suberr \/ sendErr(o) # Nil)
       /\ wpc' = [wpc EXCEPT ![w] = runNext(sendErr(o))]
  /\ wr' = [wr EXCEPT ![w] = <<>>]
  /\ UNCHANGED <<errout, cfgvars, supvars, scanvars, routevars, batchvars, recv>>

\* ------------------------------------------------------------------ Next
Next ==
  \/ run
  \/ \E p \in Cmds : execCollect(p)
  \/ \E p \in Cmds : wait(p)
  \/ \E p \in Cmds : Fatalf(p)
  \/ \E p \in Cmds : scan(p)
  \/ \E p \in Cmds : collectRecv(p)
  \/ \E p \in Cmds : collectDone(p)
  \/ \E p \in Cmds : sendPrint(p)
  \/ \E p \in Cmds : sendBatch(p)
  \/ collectTick
  \/ \E w \in Workers : submit(w)
  \/ \E w \in Workers : send(w)

Spec == Init /\ [][Next]_vars

\* One command on the command line: the only stream into the router.
InitOne == Init /\ ncmds = 1
SpecOne == InitOne /\ [][Next]_vars

\* One command, with the stderr goroutine of drainPipes, which changes
\* errout and nothing else.
NextErr == Next \/ \E p \in Cmds : stderr(p)
SpecErr == InitOne /\ [][NextErr]_vars

\* The scheduler runs a goroutine that can run, and an HTTP round trip
\* returns.
Fairness ==
  /\ \A w \in Workers : WF_vars(submit(w)) /\ WF_vars(send(w))
  /\ \A p \in Cmds : WF_vars(Fatalf(p))
FairOne == SpecOne /\ Fairness

\* One command; besides, the ticker keeps firing and the collector, when
\* it waits in its select, receives the tick.
FairTick == SpecOne /\ Fairness /\ WF_vars(collectTick)

\* The -fatal flag is given.
InitFatal == Init /\ fatal
FairFatal == InitFatal /\ [][Next]_vars /\ Fairness

\* ================================================================ claims
IsPrefix(s, t) == Len(s) <= Len(t) /\ \A i \in 1..Len(s) : s[i] = t[i]

\* The lines of s that command p wrote.
From(p, s) == SelectSeq(s, LAMBDA l : l[1] = p)

Sinks == 1..Len(cols)

\* results.collect of command p has returned (or was never called).
Returned(p) == rpc[p] = "off"

\* C1: with one stream into the router, what each sink has received is at
\* every moment a prefix of the lines sent on the stream, and is all of
\* them, in order, once collect has returned.
C1_ExactFanOut ==
  ncmds = 1 =>
    \A i \in Sinks :
      /\ IsPrefix(recv[i], input[1])
      /\ Returned(1) => recv[i] = input[1]

\* C1 witness: collect has returned after a stream of two lines or more to
\* two sinks, and the second sink holds the whole stream.
C1_Witness ==
  /\ ncmds = 1 /\ Len(cols) = 2 /\ Returned(1)
  /\ Len(input[1]) >= 2 /\ recv[2] = input[1]

\* C2: with several commands running at once on one results, the lines a
\* sink has received from one command are, in order, the first lines that
\* command's stdout goroutine read; lines of different commands interleave
\* freely.
C2_PerProcessOrder ==
  \A i \in Sinks : \A p \in Cmds : IsPrefix(From(p, recv[i]), input[p])

\* C2 witness: two commands, two sinks, three lines received by both sinks,
\* two of them from command 1, and the two sinks got them in different
\* orders.
C2_Witness ==
  /\ ncmds = 2 /\ Len(cols) = 2
  /\ Len(recv[1]) = 3 /\ Len(recv[2]) = 3
  /\ Len(From(1, recv[1])) = 2
  /\ recv[1] # recv[2]

\* The sink of the batch collector, and the lines it has accepted.
BatchSink == CHOOSE i \in Sinks : cols[i] = "batch"
Accepted == recv[BatchSink]

\* The least integer not below a / b.
Ceil(a, b) == (a + b - 1) \div b

\* The number of buffers of fs that hold a line.
NonEmpty(fs) == Cardinality({k \in 1..Len(fs) : Len(fs[k]) > 0})

\* C3: batchi stays within the batch slice, and no buffer handed to the
\* submitter holds more than nbatch lines.
C3_BatchBounded ==
  /\ 0 <= batchi /\ batchi <= nbatch
  /\ \A k \in 1..Len(flushes) : Len(flushes[k]) <= nbatch
  /\ Len(bbuf) <= nbatch
  /\ \A w \in Workers : Len(wr[w]) <= nbatch

\* C3 witness: with nbatch above one, a full buffer was handed over and a
\* further line is in the batch.
C3_Witness ==
  /\ HasBatch /\ nbatch > 1 /\ bpc = "select" /\ batchi >= 1
  /\ \E k \in 1..Len(flushes) : Len(flushes[k]) = nbatch

\* C4 as claimed: once N lines are accepted, at least ceil(N / nbatch)
\* flushes of a non-empty buffer have been made.
C4_Original ==
  (HasBatch /\ bpc = "select") =>
    NonEmpty(flushes) >= Ceil(Len(Accepted), nbatch)

\* C4 amended: once N lines are accepted, at least ceil(N / nbatch) - 1
\* flushes of a non-empty buffer have been made; the lines still in the
\* batch, nbatch at most, wait for a later line or tick.
C4_FlushCount ==
  HasBatch => NonEmpty(flushes) >= Ceil(Len(Accepted), nbatch) - 1

\* C4 witness: nbatch + 1 lines accepted, nbatch above one, and exactly one
\* flush made.
C4_Witness ==
  /\ HasBatch /\ nbatch > 1 /\ bpc = "select"
  /\ Len(Accepted) = nbatch + 1
  /\ NonEmpty(flushes) = 1

\* C5: a tick flushes exactly when the batch holds a line and no full batch
\* was flushed since the tick before; so the first tick after one or more
\* flushes of a full batch flushes nothing, and the next one is normal.
C5_SkipTick ==
  [][collectTick =>
       ((flushes' # flushes) <=> (capSince = 0 /\ batchi > 0))]_vars

\* C5 witness: two full batches were flushed since the last tick, and the
\* collector waits in its select with a line in the batch.
C5_Witness ==
  /\ bpc = "select" /\ capSince >= 2 /\ skipTick /\ batchi > 0

\* C6: no buffer without a line is handed to the submitter or posted.
C6_NoEmptyPayload ==
  /\ \A k \in 1..Len(flushes) : Len(flushes[k]) > 0
  /\ \A k \in 1..Len(posts) : Len(posts[k]) > 0
  /\ bpc = "submit" => Len(bbuf) > 0
  /\ \A w \in Workers : wpc[w] = "send" => Len(wr[w]) > 0

\* C6 witness: after a POST the collector waits in its select with an empty
\* batch and skipTick clear, where a tick can be received.
C6_Witness ==
  /\ bpc = "select" /\ batchi = 0 /\ ~skipTick /\ Len(posts) >= 1

\* execCollect of command p returned an error in this step.
Failed(p) == err'[p] # Nil /\ (runs'[p] # runs[p] \/ pc[p] = "wait")

\* C7: in fatal mode, once execCollect of a command has failed (no pipe,
\* no start, or a child exited with a failure code) the failure is logged,
\* the command has no child and its supervisor only has elog.Fatalf left to
\* do, which it does: the process exits, with status 1, and only this way.
C7_FatalTerminates ==
  /\ [](fatal =>
         /\ \A p \in Cmds :
              err[p] # Nil => pc[p] = "fatalf" /\ nlog[p] >= 1 /\ alive[p] = 0
         /\ ~Running =>
              exit = 1 /\ \E p \in Cmds : pc[p] = "fatalf" /\ nlog[p] >= 1)
  /\ \A p \in Cmds : (fatal /\ err[p] # Nil) ~> (exit = 1)

\* C7 witness: the process has exited with status 1 after a child of one
\* command exited with a failure code, while a child of another command
\* was running.
C7_Witness ==
  /\ fatal /\ exit = 1
  /\ \E p, q \in Cmds :
       /\ err[p] = waitErr("ExitError") /\ pc[p] = "fatalf"
       /\ alive[q] = 1

\* C8: without the -fatal flag the process never exits, and a failed
\* execCollect is logged once and leaves its supervisor at the top of its
\* loop, about to execute the command again, with no change to the
\* supervisors of the other commands.
C8_NonFatalRestarts ==
  /\ [](~fatal => Running)
  /\ [][~fatal =>
          \A p \in Cmds :
            Failed(p) =>
              /\ pc'[p] = "exec"
              /\ nlog'[p] = nlog[p] + 1
              /\ \A q \in Cmds \ {p} :
                   /\ pc'[q] = pc[q] /\ runs'[q] = runs[q]
                   /\ alive'[q] = alive[q] /\ spc'[q] = spc[q]
                   /\ rpc'[q] = rpc[q]]_vars

\* C8 witness: without -fatal, a command that failed and was logged has a
\* new child running, beside the child of another command.
C8_Witness ==
  /\ ~fatal
  /\ \E p, q \in Cmds :
       /\ p # q /\ nlog[p] >= 1 /\ runs[p] >= 2
       /\ pc[p] = "drain" /\ alive[p] = 1
       /\ pc[q] = "drain" /\ alive[q] = 1

\* execCollect of command p returned nil in this step, as it does when the
\* child exited with status zero.
CleanExit(p) == pc[p] = "wait" /\ pc'[p] # "wait" /\ err'[p] = Nil

\* C9: when a child exits with status zero its supervisor goes back to the
\* top of its loop, to execute the command again, with or without -fatal
\* and with one command or several; the process does not exit and the main
\* goroutine stays where it is.
C9_CleanExitRestarts ==
  [][\A p \in Cmds :
       CleanExit(p) =>
         /\ pc'[p] = "exec"
         /\ Running'
         /\ mainpc' = mainpc
         /\ nlog'[p] = nlog[p]]_vars

\* C9 witness: in fatal mode with one command, the child exited with status
\* zero and the supervisor is back at the top of its loop, on the main
\* goroutine, with an execution left to make.
C9_Witness ==
  /\ fatal /\ ncmds = 1 /\ mainpc = "runOne" /\ Running
  /\ runs[1] >= 1 /\ pc[1] = "exec" /\ err[1] = Nil
  /\ TotalRuns < MaxRuns

\* C10: once a submission has failed, every buffer flushed is still posted
\* (as long as the process runs): the worker went back to its loop, and
\* submit is not blocked for ever.
C10_WorkerResumes ==
  \A n \in 1..MaxLines :
    (suberr /\ Len(flushes) >= n) ~> (Len(posts) >= n \/ ~Running)

\* C10 witness: after a failed submission and two POSTs the worker is
\* sending a further buffer.
C10_Witness ==
  /\ suberr /\ Len(posts) >= 2
  /\ \E w \in Workers : wpc[w] = "send" /\ Len(wr[w]) > 0

\* The payloads handed to a worker: every buffer flushed but the one flush
\* is still blocked in submit with.
HandedOff == IF bpc = "submit" THEN SubSeq(flushes, 1, Len(flushes) - 1)
             ELSE flushes

\* The workers in a round trip that has not returned.
InFlight == {w \in Workers : wpc[w] = "send"}

\* C11: a payload handed to the submitter is posted once at most: the POSTs
\* made are, without repetition, payloads that were handed over, a payload
\* a worker holds has not been posted yet and no other worker holds it, and
\* after the POST, failed or not, the worker holds nothing.
C11_AtMostOnePost ==
  /\ \A i, j \in 1..Len(posts) : i # j => posts[i] # posts[j]
  /\ \A k \in 1..Len(posts) : \E j \in 1..Len(HandedOff) : posts[k] = HandedOff[j]
  /\ Len(posts) + Cardinality(InFlight) = Len(HandedOff)
  /\ \A w \in Workers :
       /\ wpc[w] = "send" =>
            /\ \A k \in 1..Len(posts) : posts[k] # wr[w]
            /\ \A v \in Workers \ {w} : wpc[v] = "send" => wr[v] # wr[w]
       /\ wpc[w] # "send" => wr[w] = <<>>

\* C11 witness: a POST has failed, every payload handed over was posted,
\* two at least, and the worker is idle again holding nothing.
C11_Witness ==
  /\ suberr /\ Len(posts) >= 2 /\ Len(posts) = Len(flushes)
  /\ \A w \in Workers : wpc[w] = "idle" /\ wr[w] = <<>>

\* The lines of the sequence s.
Lines(s) == {s[k] : k \in 1..Len(s)}

\* The lines the stdout goroutines have read.
StdoutLines == UNION {Lines(input[p]) : p \in Cmds}

\* The lines the buffers of the sequence fs hold.
LinesOf(fs) == UNION {Lines(fs[k]) : k \in 1..Len(fs)}

\* C12: a line read from a child's standard error goes to os.Stderr and
\* nowhere else: every line the router holds, a sink has received, the
\* batch holds, or a buffer flushed, being posted or posted holds, is a
\* line the stdout goroutine read, and no line written to os.Stderr is.
C12_StderrNotForwarded ==
  /\ Lines(errout) \cap StdoutLines = {}
  /\ \A p \in Cmds : rpc[p] = "send" => rres[p] \in StdoutLines
  /\ \A i \in Sinks : Lines(recv[i]) \subseteq StdoutLines
  /\ Lines(writeTo(batch, batchi)) \subseteq StdoutLines
  /\ LinesOf(flushes) \subseteq StdoutLines
  /\ LinesOf(posts) \subseteq StdoutLines
  /\ \A w \in Workers : Lines(wr[w]) \subseteq StdoutLines

\* C12 witness: the child wrote to standard error before a line of its
\* standard output was read, and that line has reached both sinks and was
\* posted.
C12_Witness ==
  /\ Len(errout) >= 1 /\ errout[1][2] = 1
  /\ Len(cols) = 2 /\ Len(recv[1]) >= 1 /\ Len(recv[2]) >= 1
  /\ Len(posts) >= 1

\* The buffers of the sequence fs, one after the other.
RECURSIVE Concat(_)
Concat(fs) == IF fs = <<>> THEN <<>> ELSE Head(fs) \o Concat(Tail(fs))

\* The lines in the batch, b.batch[0 : b.batchi].
Held == SubSeq(batch, 1, batchi)

\* The line collect has received and will store when flush returns.
Pending == IF bcase = "line" THEN <<bres>> ELSE <<>>

\* C13 as claimed: at every moment the buffers flush has made, one after
\* the other, followed by the lines in the batch, are the lines accepted.
C13_Original ==
  HasBatch => Concat(flushes) \o Held = Accepted

\* C13 amended: the buffers flush has made, one after the other, followed
\* by the lines in the batch and by the line collect has received and not
\* stored yet (flush of the full batch has not returned), are the lines
\* accepted; they are the buffers and the batch alone whenever the
\* collector waits in its select.
C13_NothingLost ==
  HasBatch =>
    /\ Concat(flushes) \o Held \o Pending = Accepted
    /\ bpc = "select" => Pending = <<>>

\* C13 witness: the batch of two lines was flushed on the arrival of a
\* third line, and flush is still in submit: the third line is accepted
\* and is neither in a buffer nor in the batch.
C13_Witness ==
  /\ HasBatch /\ nbatch = 2 /\ bpc = "submit" /\ bcase = "line"
  /\ Len(Accepted) = 3 /\ Len(Concat(flushes)) = 2 /\ batchi = 0

\* C14: the arrival of a line flushes exactly when the batch holds nbatch
\* lines; the buffer then made holds those nbatch lines in order, and when
\* flush returns the line is stored and is the only line in the batch.
\* With nbatch = 2 and no flush made before, the third line flushes the
\* first two.
C14_CapacityFlush ==
  /\ [][\A p \in Cmds :
         sendBatch(p) =>
           /\ (flushes' # flushes) <=> (batchi = nbatch)
           /\ batchi = nbatch =>
                /\ flushes' = Append(flushes, SubSeq(batch, 1, nbatch))
                /\ Held' = <<>> /\ Pending' = <<rres[p]>>
           /\ batchi < nbatch => Held' = Append(Held, rres[p])]_vars
  /\ [][\A w \in Workers :
         (submit(w) /\ bcase = "line") =>
           /\ flushes' = flushes
           /\ batchi' = 1 /\ Held' = <<bres>> /\ Pending' = <<>>]_vars
  /\ [][\A p \in Cmds :
         (sendBatch(p) /\ nbatch = 2 /\ flushes = <<>> /\ Len(Accepted) = 2) =>
           flushes' = <<SubSeq(Accepted, 1, 2)>>]_vars

\* C14 witness: nbatch is 2, three lines were accepted, the one flush made
\* holds the first two, and the third is alone in the batch, the collector
\* back in its select.
C14_Witness ==
  /\ HasBatch /\ nbatch = 2 /\ bpc = "select" /\ Len(Accepted) = 3
  /\ flushes = <<SubSeq(Accepted, 1, 2)>>
  /\ Held = <<Accepted[3]>> /\ skipTick

\* C15: a tick received with skipTick clear and k > 0 lines in the batch
\* makes one buffer, of those k lines in order, and leaves the batch empty;
\* until flush has returned no line is accepted and no other buffer is
\* made, and the worker is handed that buffer.
C15_TickFlush ==
  /\ [][(collectTick /\ ~skipTick /\ batchi > 0) =>
          /\ batchi <= nbatch
          /\ flushes' = Append(flushes, Held)
          /\ batchi' = 0 /\ Held' = <<>>
          /\ bpc' = "submit" /\ bcase' = "tick"]_vars
  /\ [][bcase = "tick" =>
          /\ batchi = 0 /\ batchi' = 0
          /\ Accepted' = Accepted
          /\ flushes' = flushes
          /\ \A w \in Workers :
               submit(w) => wr'[w] = flushes[Len(flushes)] /\ bpc' = "select"]_vars

\* C15 witness: with nbatch = 2 a tick has flushed a batch of one line,
\* the worker is posting it, and the collector is back in its select with
\* an empty batch.
C15_Witness ==
  /\ HasBatch /\ nbatch = 2 /\ bpc = "select" /\ batchi = 0
  /\ Len(flushes) >= 1 /\ Len(flushes[Len(flushes)]) = 1
  /\ \E w \in Workers : wpc[w] = "send" /\ wr[w] = flushes[Len(flushes)]

\* C16 as claimed: in its select the collector holds fewer than nbatch
\* lines.
C16_Original ==
  bpc = "select" => (0 <= batchi /\ batchi < nbatch)

\* C16 amended: in its select the collector holds nbatch lines at most;
\* a full batch stays in the batch until the next line or tick.
C16_Accumulating ==
  bpc = "select" =>
    /\ 0 <= batchi /\ batchi <= nbatch
    /\ Len(batch) = nbatch
    /\ \A i \in 1..nbatch : (batch[i] = Empty) <=> (i > batchi)

\* C16 witness: the collector waits in its select with a full batch of two
\* lines, no flush made yet.
C16_Witness ==
  /\ HasBatch /\ nbatch = 2 /\ bpc = "select" /\ batchi = nbatch
  /\ flushes = <<>> /\ Held = Accepted

\* The number of lines the router has taken from the stream of command p,
\* and the number of them sink i has received.
Taken(p) == Len(input[p]) - (IF spc[p] = "send" THEN 1 ELSE 0)
Got(p, i) == Len(From(p, recv[i]))

\* C17: for the stream of each command, while the router waits for a line
\* every sink has received all the lines taken; while it sends line n the
\* sinks before r.sinks[i] have received n lines and the others n - 1, so
\* two sinks differ by one line at most; and the stdout goroutine has read
\* one line at most beyond those taken, which it holds until the router
\* takes it.
C17_SynchronousFanOut ==
  \A p \in Cmds :
    /\ rpc[p] # "send" => \A i \in Sinks : Got(p, i) = Taken(p)
    /\ rpc[p] = "send" =>
         \A i \in Sinks :
           Got(p, i) = IF i < ri[p] THEN Taken(p) ELSE Taken(p) - 1
    /\ \A i, j \in Sinks : Got(p, i) - Got(p, j) \in {-1, 0, 1}
    /\ Len(input[p]) - Taken(p) \in {0, 1}
    /\ spc[p] = "send" => sline[p] = input[p][Len(input[p])]

\* C17 witness: with two commands and two sinks, the batch collector is
\* inside flush and does not receive; the router of a command is stopped
\* at it with its second line, the print collector has not got that line,
\* and the stdout goroutine is stopped with the third line.
C17_Witness ==
  /\ ncmds = 2 /\ Len(cols) = 2 /\ bpc = "submit"
  /\ \E p \in Cmds :
       /\ rpc[p] = "send" /\ ri[p] = 1 /\ spc[p] = "send"
       /\ Taken(p) = 2 /\ Len(input[p]) = 3
       /\ Got(p, 1) = 1 /\ Got(p, 2) = 1

\* The number of payloads handed to a worker whose POST has not returned.
Unfinished == Len(HandedOff) - Len(posts)

\* C18: submit returns only in a step in which an idle worker takes the
\* buffer; so while every worker is in a round trip submit stays blocked,
\* and the payloads handed over and not posted yet are never more than
\* NWorkers + NBuf: they are the ones the workers hold.
C18_SubmitBlocks ==
  /\ [](/\ Unfinished = Cardinality(InFlight)
        /\ Unfinished <= NWorkers + NBuf)
  /\ [][(bpc = "submit" /\ bpc' # "submit") =>
          \E w \in Workers :
            wpc[w] = "idle" /\ wpc'[w] = "send" /\ wr'[w] = bbuf]_vars
  /\ [][(bpc = "submit" /\ \A w \in Workers : wpc[w] = "send") =>
          (bpc' = "submit" /\ bbuf' = bbuf /\ flushes' = flushes)]_vars

\* C18 witness: after a first POST the worker is in a round trip with the
\* second payload, and flush is blocked in submit with a third.
C18_Witness ==
  /\ bpc = "submit" /\ Len(flushes) = 3 /\ Len(posts) = 1
  /\ \A w \in Workers : wpc[w] = "send" /\ wr[w] = flushes[2]
  /\ Unfinished = NWorkers

\* C19 as claimed: flush never has to wait for a round trip: whenever it
\* is in submit, a worker is idle to take the buffer.
C19_Original ==
  bpc = "submit" => \E w \in Workers : wpc[w] = "idle"

\* C19 amended: flush does not wait for the POST of the buffer it hands
\* over: submit returns in the step the worker takes the buffer, no POST of
\* it made; but while submit finds no idle worker, every worker is in the
\* round trip of a buffer flushed earlier, and the collector accepts no
\* line and makes no buffer until a round trip has returned.
C19_HandOff ==
  /\ [][(bpc = "submit" /\ bpc' = "select") =>
          /\ posts' = posts
          /\ \A k \in 1..Len(posts) : posts[k] # bbuf
          /\ \E w \in Workers : wpc'[w] = "send" /\ wr'[w] = bbuf]_vars
  /\ [](bpc = "submit" =>
          \A w \in Workers :
            wpc[w] # "idle" =>
              /\ wpc[w] = "send"
              /\ \E k \in 1..(Len(flushes) - 1) : wr[w] = flushes[k])
  /\ [][(bpc = "submit" /\ posts' = posts) =>
          \/ \E w \in Workers : wpc[w] = "idle"
          \/ (bpc' = "submit" /\ Accepted' = Accepted /\ flushes' = flushes)]_vars

\* C19 witness: with nbatch = 1 the first buffer is in its round trip, no
\* POST has returned, flush is in submit with the second buffer, the third
\* line is with the router, which the collector does not receive from.
C19_Witness ==
  /\ nbatch = 1 /\ bpc = "submit" /\ Len(flushes) = 2 /\ posts = <<>>
  /\ \A w \in Workers : wpc[w] = "send" /\ wr[w] = flushes[1]
  /\ \E p \in Cmds : rpc[p] = "send" /\ cols[ri[p]] = "batch"

\* C20: a command never has two children at once: a child exists exactly
\* from cmd.Start to the return of cmd.Wait, a child is started only by a
\* supervisor at the top of its loop whose command has no child, and ceases
\* to exist only by Wait; with -fatal and without, one command or several.
C20_OneChild ==
  /\ [](\A p \in Cmds :
          /\ alive[p] \in {0, 1}
          /\ alive[p] = 1 <=> pc[p] \in {"drain", "wait"}
          /\ p \notin Active => alive[p] = 0)
  /\ [][\A p \in Cmds :
          /\ alive'[p] > alive[p] =>
               (alive[p] = 0 /\ pc[p] = "exec" /\ runs'[p] = runs[p] + 1)
          /\ alive'[p] < alive[p] =>
               (pc[p] = "wait" /\ spc[p] = "off" /\ rpc[p] = "off")]_vars

\* C20 witness: with -fatal and two commands, a command is running its
\* second child, the first having been waited on, beside the child of the
\* other command.
C20_Witness ==
  /\ fatal /\ ncmds = 2
  /\ \E p, q \in Cmds :
       /\ p # q /\ runs[p] = 2 /\ alive[p] = 1 /\ pc[p] = "drain"
       /\ alive[q] = 1 /\ Running

\* Every sink has received every line the stdout goroutines of command p
\* have read, in the order read.
AllAccepted(p) == \A i \in Sinks : From(p, recv[i]) = input[p]

\* The runs of the lines of s never go down.
RunsInOrder(s) ==
  \A a, b \in 1..Len(s) : a < b => s[a][2] <= s[b][2]

\* C21: cmd.Wait is called, and its result looked at, only when the stdout
\* goroutine has closed ch and every sink has received every line of the
\* run; so the lines of a run reach each sink before any line of the next
\* run of the command, and when elog.Fatalf ends the process for a child,
\* every sink has every line that child wrote.
C21_ExitAfterDrain ==
  /\ [](\A p \in Cmds :
          /\ pc[p] \in {"wait", "exec", "fatalf"} =>
               (spc[p] = "off" /\ rpc[p] = "off" /\ AllAccepted(p))
          /\ \A i \in Sinks :
               /\ RunsInOrder(From(p, recv[i]))
               /\ \A k \in 1..Len(input[p]) :
                    (input[p][k][2] < runs[p] /\ pc[p] # "off") =>
                      k <= Len(From(p, recv[i])))
  /\ [][\A p \in Cmds :
          /\ pc'[p] = "wait" /\ pc[p] # "wait" =>
               (spc[p] = "closed" /\ rpc[p] = "range" /\ AllAccepted(p))
          /\ (err'[p] # err[p] /\ pc[p] = "wait") => AllAccepted(p)]_vars
  /\ [][exit' # exit =>
          \E p \in Cmds : pc[p] = "fatalf" /\ AllAccepted(p)]_vars

\* C21 witness: with -fatal and two sinks, the second child of a command
\* exited with a failure code and the process has ended; the command wrote
\* lines in both runs and both sinks have them all.
C21_Witness ==
  /\ fatal /\ exit = 1 /\ Len(cols) = 2
  /\ \E p \in Cmds :
       /\ pc[p] = "fatalf" /\ runs[p] = 2 /\ err[p] = waitErr("ExitError")
       /\ Len(input[p]) >= 2
       /\ input[p][1][2] = 1 /\ input[p][Len(input[p])][2] = 2
       /\ AllAccepted(p)

\* The lines collect holds: those in the batch and the one received and
\* not stored yet.
HeldLines == Held \o Pending

\* C22: a line collect holds has seen one tick handled at most, and that
\* tick was a skipped one; the next tick handled flushes it, unless the
\* arrival of a line did before.  So with ticks that keep firing, a worker
\* that takes what submit sends and round trips that return, every line
\* accepted is posted, as long as the process runs.
C22_FlushedBySecondTick ==
  /\ [](/\ aged \in {0, 1}
        /\ aged = 1 => (Len(HeldLines) > 0 /\ ~skipTick))
  /\ [][(collectTick /\ aged = 1) =>
          (flushes' = Append(flushes, Held) /\ Held' = <<>>)]_vars
  /\ [][(collectTick /\ batchi > 0 /\ flushes' = flushes) =>
          (skipTick /\ aged = 0 /\ aged' = 1 /\ ~skipTick')]_vars
  /\ \A n \in 1..MaxLines :
       (HasBatch /\ Len(Accepted) >= n)
         ~> (Len(Concat(posts)) >= n \/ ~Running)

\* C22 witness: the line stored after the flush of a full batch has seen
\* the skipped tick and is still in the batch, the collector in its select.
C22_Witness ==
  /\ HasBatch /\ bpc = "select" /\ aged = 1 /\ batchi >= 1
  /\ Len(flushes) >= 1 /\ Len(Accepted) > Len(Concat(flushes))

====
